---------------------------- MODULE Spec2Model ----------------------------
(***************************************************************************)
(* A model of toyeth: the Int256 word type (src/int256.py) and the stack   *)
(* machine interpreter (src/evm.py).                                       *)
(*                                                                         *)
(* A Word is the 32-byte big-endian tuple Int256 keeps in _bytes_value.    *)
(* A Python int is modelled exactly: a natural number is the sequence of   *)
(* its base-256 digits, least significant first, without high zeros, and   *)
(* a signed integer is a record [neg, mag] of a sign and such a magnitude. *)
(* The interpreter state is MachineState's fields.  MachineState declares  *)
(* m and s as class attributes holding mutable objects, so every instance  *)
(* reads and mutates the same dict and the same list; code, pc, i and gas  *)
(* are per instance.                                                       *)
(***************************************************************************)
EXTENDS Integers, Sequences, FiniteSets, TLC

VARIABLES
    code,    \* MachineState.code of the current instance (sequence of bytes)
    gas,     \* MachineState.gas
    pc,      \* MachineState.pc
    m,       \* MachineState.m, the class-level defaultdict: key -> byte
    i,       \* MachineState.i
    s,       \* MachineState.s, the class-level list of Words (top is last)
    status,  \* position of main's loop: "running", "exited", or the name of
             \* the exception that left the loop
    run,     \* number of MachineState instances constructed so far
    prev,    \* history: outcome of the previous instance's execution
    turns,   \* history: turns of main's loop taken with the current instance
    item,    \* rlp: the Item given to encode
    encoded, \* rlp: the bytes encode returned, given to decode
    decoded, \* rlp: the Item decode returned
    codec    \* rlp: "idle", or how far the round trip has come: "item",
             \* "encoded", "decoded"

\* The variables of the interpreter and those of the codec.
machine == <<code, gas, pc, m, i, s, status, run, prev, turns>>
rlp == <<item, encoded, decoded, codec>>

vars == <<code, gas, pc, m, i, s, status, run, prev, turns, item, encoded,
          decoded, codec>>

-----------------------------------------------------------------------------
(* Bounds of the model.                                                    *)

\* Longest program drawn from the raw byte alphabet.
MaxRawLen == 3
\* Number of MachineState instances constructed one after the other.
MaxRuns == 2
\* An operand used as a count (a memory offset, an exponent, a shift) is
\* explored while it fits in this many base-256 digits.
MaxOffsetBytes == 2
\* Largest jump destination pushed by the jump programs.
MaxDest == 8
\* Longest run of bytes that follows the jump in the jump programs.
MaxTailLen == 3
\* Turns of main's loop that are counted; the count stays there afterwards.
MaxTurns == 24
\* Deepest stack built by the DUP and SWAP programs.
MaxDepth == 17
\* A handler that appends to the stack is explored while the stack holds
\* fewer Words than this.
MaxStack == 20

-----------------------------------------------------------------------------
(* Python integers of arbitrary size.                                      *)

Min(x, y) == IF x <= y THEN x ELSE y
Max(x, y) == IF x >= y THEN x ELSE y

Reverse(q) == [k \in 1..Len(q) |-> q[Len(q) + 1 - k]]

Zeros(n) == [k \in 1..n |-> 0]

\* Number of digits once the high zero digits are dropped.
NormLen(d) ==
    IF \E k \in 1..Len(d) : d[k] # 0
    THEN CHOOSE k \in 1..Len(d) : d[k] # 0 /\ \A j \in (k+1)..Len(d) : d[j] = 0
    ELSE 0

Norm(d) == SubSeq(d, 1, NormLen(d))

RECURSIVE NatOfInt(_)
NatOfInt(n) == IF n = 0 THEN << >> ELSE <<n % 256>> \o NatOfInt(n \div 256)

RECURSIVE IntOfNatFrom(_, _)
IntOfNatFrom(d, k) ==
    IF k > Len(d) THEN 0 ELSE d[k] + 256 * IntOfNatFrom(d, k + 1)

\* The model integer of a natural number of at most three digits.
IntOfNat(d) == IntOfNatFrom(d, 1)

DigitAt(d, k) == IF k <= Len(d) THEN d[k] ELSE 0

\* The sequence with every element computed.
AsTuple(f) == SubSeq(f, 1, Len(f))

\* -1, 0 or 1 as a < b, a = b or a > b: the highest differing digit decides.
NCmp(a, b) ==
    LET n == Max(Len(a), Len(b))
        differ(k) == DigitAt(a, k) # DigitAt(b, k)
    IN  IF \A k \in 1..n : ~differ(k) THEN 0
        ELSE LET top == CHOOSE k \in 1..n :
                            differ(k) /\ \A j \in (k+1)..n : ~differ(j)
             IN  IF DigitAt(a, top) < DigitAt(b, top) THEN -1 ELSE 1

NLt(a, b) == NCmp(a, b) = -1
NLe(a, b) == NCmp(a, b) # 1

\* a + b, digit by digit: a carry enters digit k when the nearest lower
\* digit whose sum is not 255 has a sum above 255.
NAdd(a, b) ==
    LET n == Max(Len(a), Len(b)) + 1
        sum(k) == DigitAt(a, k) + DigitAt(b, k)
        carry(k) ==
            IF \E j \in 1..(k-1) :
                  sum(j) >= 256 /\ \A l \in (j+1)..(k-1) : sum(l) = 255
            THEN 1 ELSE 0
    IN  Norm([k \in 1..n |-> (sum(k) + carry(k)) % 256])

\* a - b for a >= b: a borrow leaves digit k when the nearest lower digit
\* where a and b differ has the smaller digit in a.
NSub(a, b) ==
    LET n == Len(a)
        borrow(k) ==
            IF \E j \in 1..(k-1) :
                  DigitAt(a, j) < DigitAt(b, j)
                  /\ \A l \in (j+1)..(k-1) : DigitAt(a, l) = DigitAt(b, l)
            THEN 1 ELSE 0
    IN  Norm([k \in 1..n |->
                 (DigitAt(a, k) - DigitAt(b, k) - borrow(k) + 256) % 256])

\* a * x for a digit x: the low bytes of the digit products, plus their high
\* bytes one place up.
NMulDigit(a, x) ==
    NAdd(AsTuple([k \in 1..Len(a) |-> (a[k] * x) % 256]),
         <<0>> \o AsTuple([k \in 1..Len(a) |-> (a[k] * x) \div 256]))

RECURSIVE ColSum(_, _, _, _, _)
\* The sum of a[j] * b[k + 1 - j] for j in lo..hi.
ColSum(a, b, k, lo, hi) ==
    IF lo > hi THEN 0 ELSE a[lo] * b[k + 1 - lo] + ColSum(a, b, k, lo + 1, hi)

\* a * b: the column sums of the digit products (each below 2^24), added as
\* three byte planes.
NMul(a, b) ==
    IF a = << >> \/ b = << >> THEN << >>
    ELSE LET n == Len(a) + Len(b) - 1
             col == AsTuple([k \in 1..n |->
                        ColSum(a, b, k, Max(1, k + 1 - Len(b)), Min(k, Len(a)))])
             p0 == AsTuple([k \in 1..n |-> col[k] % 256])
             p1 == AsTuple([k \in 1..n |-> (col[k] \div 256) % 256])
             p2 == AsTuple([k \in 1..n |-> col[k] \div 65536])
         IN  NAdd(NAdd(p0, <<0>> \o p1), <<0, 0>> \o p2)

\* a mod 2^(8n): the n low digits.
NLow(a, n) == Norm(SubSeq(a, 1, Min(n, Len(a))))

\* The largest digit q in lo..hi with q * b <= r (lo satisfies it).
RECURSIVE QuotDigit(_, _, _, _)
QuotDigit(r, b, lo, hi) ==
    IF lo >= hi THEN lo
    ELSE LET mid == (lo + hi + 1) \div 2
         IN  IF NLe(NMulDigit(b, mid), r)
             THEN QuotDigit(r, b, mid, hi)
             ELSE QuotDigit(r, b, lo, mid - 1)

\* r // b for r < 256 * b.  The three digits of r from the place below b's
\* highest digit, against b's two highest digits, bound the quotient from
\* both sides; the search settles what is left between the bounds.
Quot(r, b) ==
    LET t == Len(b)
        r3 == DigitAt(r, t + 1) * 65536 + DigitAt(r, t) * 256
              + (IF t >= 2 THEN DigitAt(r, t - 1) ELSE 0)
        b2 == b[t] * 256 + (IF t >= 2 THEN b[t - 1] ELSE 0)
    IN  QuotDigit(r, b, r3 \div (b2 + 1), Min(255, (r3 + 1) \div b2))

\* Long division, most significant digit first: k is the digit of a being
\* brought down, qs the quotient digits found so far (least significant
\* first), r the running remainder, which stays below b.
RECURSIVE NDivModFrom(_, _, _, _, _)
NDivModFrom(a, b, k, qs, r) ==
    IF k = 0 THEN [q |-> Norm(qs), r |-> r]
    ELSE LET r1 == Norm(<<a[k]>> \o r)
             q  == Quot(r1, b)
             r2 == NSub(r1, NMulDigit(b, q))
         IN  IF Len(r2) <= Len(b)
             THEN NDivModFrom(a, b, k - 1, <<q>> \o qs, r2)
             ELSE [q |-> << >>, r |-> << >>]

\* a // b and a % b for b > 0.
NDiv(a, b) == NDivModFrom(a, b, Len(a), << >>, << >>).q
NMod(a, b) == NDivModFrom(a, b, Len(a), << >>, << >>).r

-----------------------------------------------------------------------------
(* Int256: construction and views.                                         *)

\* Outcome of an Int256 operation: a Word, or the exception it raises.
Ok(w) == [exc |-> "none", val |-> w]
Err(e) == [exc |-> e, val |-> << >>]

\* A Python int: sign and magnitude.
PyNat(d) == [neg |-> FALSE, mag |-> d]
PyNeg(d) == [neg |-> (d # << >>), mag |-> d]

\* 2^255 and 2^256 as natural numbers.
Two255 == Zeros(31) \o <<128>>
Two256 == Zeros(32) \o <<1>>

\* Int256.__init__: the value must hold exactly 32 bytes.
Int256(bytes_value) ==
    IF Len(bytes_value) # 32 THEN Err("ValueError") ELSE Ok(bytes_value)

\* Int256.unsigned: int.from_bytes(_bytes_value, "big", signed=False).
unsigned(w) == Norm(Reverse(w))

\* Int256.signed: int.from_bytes(_bytes_value, "big", signed=True).
signed(w) ==
    IF w[1] >= 128 THEN PyNeg(NSub(Two256, unsigned(w))) ELSE PyNat(unsigned(w))

\* from_int: value.to_bytes(32, "big", signed=False) raises OverflowError for
\* a negative value and for one of more than 32 bytes.
from_int(value) ==
    IF value.neg \/ Len(value.mag) > 32 THEN Err("OverflowError")
    ELSE Int256(Reverse(value.mag \o Zeros(32 - Len(value.mag))))

\* from_signed_int: value.to_bytes(32, "big", signed=True) raises
\* OverflowError outside [-2^255, 2^255).
from_signed_int(value) ==
    IF value.neg
    THEN IF NLt(Two255, value.mag) THEN Err("OverflowError")
         ELSE LET d == NSub(Two256, value.mag)
              IN  Int256(Reverse(d \o Zeros(32 - Len(d))))
    ELSE IF NLe(Two255, value.mag) THEN Err("OverflowError")
         ELSE Int256(Reverse(value.mag \o Zeros(32 - Len(value.mag))))

\* The Word of a small model integer.
WordOf(n) == from_int(PyNat(NatOfInt(n))).val

-----------------------------------------------------------------------------
(* Bits of natural numbers.                                                *)

RECURSIVE Pow2(_)
Pow2(n) == IF n = 0 THEN 1 ELSE 2 * Pow2(n - 1)

RECURSIVE BitLenInt(_)
BitLenInt(x) == IF x = 0 THEN 0 ELSE 1 + BitLenInt(x \div 2)

\* int.bit_length().
BitLen(a) == IF a = << >> THEN 0 ELSE 8 * (Len(a) - 1) + BitLenInt(a[Len(a)])

\* a << k.
NShl(a, k) == Norm(Zeros(k \div 8) \o NMulDigit(a, Pow2(k % 8)))

\* a >> k: digit j of the result takes the high bits of digit j + k \div 8
\* of a and the low bits of the digit above it.
NShr(a, k) ==
    LET drop == k \div 8
        bits == k % 8
    IN  IF drop >= Len(a) THEN << >>
        ELSE Norm([j \in 1..(Len(a) - drop) |->
                      DigitAt(a, j + drop) \div Pow2(bits)
                      + (DigitAt(a, j + drop + 1) % Pow2(bits)) * Pow2(8 - bits)])

\* Bit k of a (bit 0 is the least significant).
NBit(a, k) == (DigitAt(a, k \div 8 + 1) \div Pow2(k % 8)) % 2

\* a mod 2^k.
NLowBits(a, k) ==
    Norm([j \in 1..Min(Len(a), k \div 8 + 1) |->
             IF j <= k \div 8 THEN a[j] ELSE a[j] % Pow2(k % 8)])

BitOf(op, x, y) ==
    CASE op = "and" -> x * y
      [] op = "or"  -> Max(x, y)
      [] op = "xor" -> (x + y) % 2

RECURSIVE ByteOp(_, _, _, _)
ByteOp(op, x, y, n) ==
    IF n = 0 THEN 0
    ELSE BitOf(op, x % 2, y % 2) + 2 * ByteOp(op, x \div 2, y \div 2, n - 1)

\* a & b, a | b, a ^ b on two Words' unsigned values, as 32 bytes.
WordOp(op, a, b) == [k \in 1..32 |-> ByteOp(op, a[k], b[k], 8)]

-----------------------------------------------------------------------------
(* Int256: the operations.                                                 *)

\* sgn.
sgn(x) == IF x.mag = << >> THEN 0 ELSE IF x.neg THEN -1 ELSE 1

Int256_add(self, other) ==
    from_int(PyNat(NLow(NAdd(unsigned(self), unsigned(other)), 32)))

Int256_mul(self, other) ==
    from_int(PyNat(NLow(NMul(unsigned(self), unsigned(other)), 32)))

Int256_div(self, other) ==
    IF unsigned(other) = << >> THEN from_int(PyNat(<< >>))
    ELSE from_int(PyNat(NDiv(unsigned(self), unsigned(other))))

Int256_mod(self, other) ==
    IF unsigned(other) = << >> THEN from_int(PyNat(<< >>))
    ELSE from_int(PyNat(NMod(unsigned(self), unsigned(other))))

\* sgn(self.signed) * (abs(self.signed) % abs(other.signed)).
Int256_smod(self, other) ==
    IF signed(other).mag = << >> THEN from_int(PyNat(<< >>))
    ELSE LET r == NMod(signed(self).mag, signed(other).mag)
         IN  from_signed_int(IF signed(self).neg THEN PyNeg(r) ELSE PyNat(r))

Int256_addmod(self, other, modulo) ==
    IF signed(modulo).mag = << >> THEN from_int(PyNat(<< >>))
    ELSE from_int(PyNat(NMod(NAdd(unsigned(self), unsigned(other)),
                             unsigned(modulo))))

Int256_mulmod(self, other, modulo) ==
    IF signed(modulo).mag = << >> THEN from_int(PyNat(<< >>))
    ELSE from_int(PyNat(NMod(NMul(unsigned(self), unsigned(other)),
                             unsigned(modulo))))

Bool(b) == from_int(PyNat(IF b THEN <<1>> ELSE << >>))

Int256_lt(self, other) == Bool(NLt(unsigned(self), unsigned(other)))

Int256_gt(self, other) == Bool(NLt(unsigned(other), unsigned(self)))

\* x < y for two Python ints.
PyLt(x, y) ==
    IF x.neg /\ ~y.neg THEN TRUE
    ELSE IF ~x.neg /\ y.neg THEN FALSE
    ELSE IF x.neg THEN NLt(y.mag, x.mag)
    ELSE NLt(x.mag, y.mag)

Int256_slt(self, other) == Bool(PyLt(signed(self), signed(other)))

Int256_sgt(self, other) == Bool(PyLt(signed(other), signed(self)))

Int256_eq(self, other) == Bool(self = other)

Int256_iszero(self) == Bool(unsigned(self) = << >>)

Int256_and_(self, other) == Int256(WordOp("and", self, other))

Int256_or_(self, other) == Int256(WordOp("or", self, other))

Int256_xor(self, other) == Int256(WordOp("xor", self, other))

\* from_signed_int(~self.unsigned): ~u is -(u + 1).
Int256_not_(self) == from_signed_int(PyNeg(NAdd(unsigned(self), <<1>>)))

\* self._bytes_value[index] for a non-negative int index.
Int256_byte(self, index) ==
    IF Len(index) > 1 \/ IntOfNat(index) > 31 THEN Err("IndexError")
    ELSE from_int(PyNat(NatOfInt(self[IntOfNat(index) + 1])))

\* signextend: with k = other.unsigned, the byte at index 31 - k gives the
\* sign; a negative index counts from the end (k in 32..63), a negative
\* repeat count gives no fill bytes, and the slice [31 - k : 32] starts at
\* 63 - k then.
Int256_signextend(self, other) ==
    LET k == unsigned(other)
    IN  IF Len(k) > 1 \/ IntOfNat(k) > 63 THEN Err("IndexError")
        ELSE LET kk == IntOfNat(k)
                 idx == IF kk <= 31 THEN 31 - kk ELSE 63 - kk
                 sign_bit == self[idx + 1] \div 128
                 fill == IF kk <= 31 THEN 31 - kk ELSE 0
             IN  Int256([x \in 1..fill |-> IF sign_bit = 1 THEN 255 ELSE 0]
                        \o SubSeq(self, idx + 1, 32))

\* The integer part of the float self.signed / other.signed for magnitudes
\* n, d > 0.  Python's int / int is the quotient rounded to the nearest
\* double (53 significant bits, ties to even); int() then drops the
\* fraction.  With q = n // d of bit length L: for L >= 54 the quotient is
\* rounded to a multiple of 2^(L-53); for L = 53 to an integer; below, the
\* float reaches q + 1 exactly when n/d is within half a unit in the last
\* place, 2^(L-54), of it.
TrueDivInt(n, d) ==
    LET q == NDiv(n, d)
        r == NMod(n, d)
        L == BitLen(q)
    IN  IF L >= 54
        THEN LET sh == L - 53
                 h == NShr(q, sh)
                 c == NCmp(NLowBits(q, sh), NShl(<<1>>, sh - 1))
                 up == c = 1 \/ (c = 0 /\ (r # << >> \/ NBit(h, 0) = 1))
             IN  NShl(IF up THEN NAdd(h, <<1>>) ELSE h, sh)
        ELSE IF L = 53
        THEN LET c == NCmp(NShl(r, 1), d)
                 up == c = 1 \/ (c = 0 /\ NBit(q, 0) = 1)
             IN  IF up THEN NAdd(q, <<1>>) ELSE q
        ELSE IF NLe(NShl(NSub(d, r), 54 - L), d) THEN NAdd(q, <<1>>) ELSE q

\* sgn(self.signed / other.signed) * int(abs(self.signed / other.signed)).
Int256_sdiv(self, other) ==
    LET a == signed(self)
        b == signed(other)
    IN  IF b.mag = << >> THEN from_int(PyNat(<< >>))
        ELSE IF a = PyNeg(Two255) /\ b = PyNeg(<<1>>)
        THEN from_signed_int(PyNeg(Two255))
        ELSE IF a.mag = << >> THEN from_signed_int(PyNat(<< >>))
        ELSE LET v == TrueDivInt(a.mag, b.mag)
             IN  from_signed_int(IF a.neg # b.neg THEN PyNeg(v) ELSE PyNat(v))

RECURSIVE NPowLow(_, _)
\* (a ** e) % 2**256 for a model integer e.
NPowLow(a, e) ==
    IF e = 0 THEN <<1>>
    ELSE LET h == NPowLow(a, e \div 2)
             sq == NLow(NMul(h, h), 32)
         IN  IF e % 2 = 0 THEN sq ELSE NLow(NMul(sq, a), 32)

\* (self.unsigned ** exponent.unsigned) % 2**256; the power of 0 or 1 needs
\* no exponentiation.
Int256_exp(self, exponent) ==
    LET a == unsigned(self)
        e == unsigned(exponent)
    IN  from_int(PyNat(IF a = << >> THEN (IF e = << >> THEN <<1>> ELSE << >>)
                       ELSE IF a = <<1>> THEN <<1>>
                       ELSE NPowLow(a, IntOfNat(e))))

\* (self.unsigned << shift.unsigned) % 2**256, shift a Word.
Int256_shl(self, shift) ==
    LET u == unsigned(self)
        k == unsigned(shift)
    IN  from_int(PyNat(IF u = << >> THEN << >>
                       ELSE NLow(NShl(u, IntOfNat(k)), 32)))

\* self.unsigned >> shift: the handler passes the popped Word as shift, and
\* int >> Int256 is not defined.
Int256_shr(self, shift) == Err("TypeError")

\* self.signed >> shift: as for shr.
Int256_sar(self, shift) == Err("TypeError")

-----------------------------------------------------------------------------
(* Mnemonic: the opcode bytes.                                             *)

STOP == 0
ADD == 1
MUL == 2
SUB == 3
DIV == 4
SDIV == 5
MOD == 6
SMOD == 7
ADDMOD == 8
MULMOD == 9
EXP == 10
SIGNEXTEND == 11
LT == 16
GT == 17
SLT == 18
SGT == 19
EQ == 20
ISZERO == 21
AND == 22
OR == 23
XOR == 24
NOT == 25
BYTE == 26
SHL == 27
SHR == 28
SAR == 29
PUSH1 == 96
PUSH32 == 127
DUP1 == 128
DUP16 == 143
SWAP1 == 144
SWAP16 == 159
POP == 80
MLOAD == 81
MSTORE == 82
MSTORE8 == 83
JUMP == 86
JUMPI == 87
PC == 88
MSIZE == 89
GAS == 90
JUMPDEST == 91

-----------------------------------------------------------------------------
(* MachineState: the stack and the memory.                                 *)

\* list.pop() applied n times to st, stopping at the empty list.
PopN(st, n) == SubSeq(st, 1, Max(0, Len(st) - n))

\* st[-n] for 1 <= n <= Len(st).
Peek(st, n) == st[Len(st) + 1 - n]

\* defaultdict(int).__getitem__: the value under key k, 0 when k is missing.
MemGet(mem, k) == IF k \in DOMAIN mem THEN mem[k] ELSE 0

\* read_mem_256: the Word of the 32 bytes from offset.
read_mem_256(mem, offset) == Int256([x \in 1..32 |-> MemGet(mem, offset + x - 1)])

\* The dict after read_mem_256: a defaultdict inserts every missing key it is
\* asked for, with the value 0.
read_mem_256_dict(mem, offset) ==
    [k \in DOMAIN mem \cup (offset..(offset + 31)) |-> MemGet(mem, k)]

\* write_mem_256: m[offset + x] = d for each byte d of value.
write_mem_256(mem, offset, value) ==
    [k \in DOMAIN mem \cup (offset..(offset + 31)) |->
        IF k \in offset..(offset + 31) THEN value[k - offset + 1] ELSE mem[k]]

\* A variant of the rule below that stores the high-order byte of value.
write_mem_8_high(mem, offset, value) ==
    [k \in DOMAIN mem \cup {offset} |-> IF k = offset THEN value[1] ELSE mem[k]]

\* write_mem_8: m[offset] = bytes(value)[31].
write_mem_8(mem, offset, value) ==
    [k \in DOMAIN mem \cup {offset} |-> IF k = offset THEN value[32] ELSE mem[k]]

\* A variant of the rule below that forgets the max.
active_words_last(cur, offset) == (offset + 32) \div 32

\* The i that mload and mstore leave: max(i, (offset + 32) // 32).
active_words_256(cur, offset) == Max(cur, (offset + 32) \div 32)

\* The i that mstore8 leaves: max(i, (offset + 1) // 32).
active_words_8(cur, offset) == Max(cur, (offset + 1) \div 32)

-----------------------------------------------------------------------------
(* main's loop and the dispatch table.                                     *)

\* The test of main's while loop, taken before every dispatch.
LoopTest(counter, program) ==
    IF counter < Len(program) THEN "running" ELSE "exited"

\* state.code[k] for an index k inside the program.
CodeAt(program, k) == program[k + 1]

\* The bytes that have an entry in _INSTRUCTION_MAP.
Registered ==
    {STOP, ADD, MUL, DIV, SDIV, MOD, SMOD, ADDMOD, MULMOD, EXP, SIGNEXTEND,
     LT, GT, SLT, SGT, EQ, ISZERO, AND, OR, XOR, NOT, BYTE, SHL, SHR, SAR,
     POP, MLOAD, MSTORE, MSTORE8, JUMP, JUMPI, PC, MSIZE, GAS, JUMPDEST}
    \cup (PUSH1..PUSH32) \cup (DUP1..DUP16) \cup (SWAP1..SWAP16)

\* main fetches m = state.code[state.pc], and execute finds a handler for it.
Fetch(op) ==
    /\ status = "running"
    /\ CodeAt(code, pc) = op
    /\ op \in Registered

\* The handler raises exc: the exception leaves main's loop.
Raise(exc) ==
    /\ status' = exc
    /\ pc' = pc

\* The handler sets state.pc and returns to the loop test.
Goto(target) ==
    /\ pc' = target
    /\ status' = LoopTest(target, code)

\* What no handler changes.
Frame == UNCHANGED <<code, gas, run, prev>> /\ UNCHANGED rlp

-----------------------------------------------------------------------------
(* The handlers.  Each pops with list.pop(), which raises IndexError on an  *)
(* empty list after the pops before it have taken effect.                  *)

\* A handler that pops one operand and appends F of it.
Unary(F(_)) ==
    /\ IF Len(s) < 1
       THEN /\ s' = s
            /\ Raise("IndexError")
       ELSE LET r == F(Peek(s, 1))
            IN  IF r.exc # "none"
                THEN /\ s' = PopN(s, 1)
                     /\ Raise(r.exc)
                ELSE /\ s' = Append(PopN(s, 1), r.val)
                     /\ Goto(pc + 1)
    /\ UNCHANGED <<m, i>>
    /\ Frame

\* A handler that pops a, then b, and appends F(a, b).
Binary(F(_, _)) ==
    /\ IF Len(s) < 2
       THEN /\ s' = PopN(s, 2)
            /\ Raise("IndexError")
       ELSE LET r == F(Peek(s, 1), Peek(s, 2))
            IN  IF r.exc # "none"
                THEN /\ s' = PopN(s, 2)
                     /\ Raise(r.exc)
                ELSE /\ s' = Append(PopN(s, 2), r.val)
                     /\ Goto(pc + 1)
    /\ UNCHANGED <<m, i>>
    /\ Frame

\* A handler that pops a, b, then c, and appends F(a, b, c).
Ternary(F(_, _, _)) ==
    /\ IF Len(s) < 3
       THEN /\ s' = PopN(s, 3)
            /\ Raise("IndexError")
       ELSE LET r == F(Peek(s, 1), Peek(s, 2), Peek(s, 3))
            IN  IF r.exc # "none"
                THEN /\ s' = PopN(s, 3)
                     /\ Raise(r.exc)
                ELSE /\ s' = Append(PopN(s, 3), r.val)
                     /\ Goto(pc + 1)
    /\ UNCHANGED <<m, i>>
    /\ Frame

\* The stack is explored up to MaxStack Words.
Room == Len(s) < MaxStack

\* A handler that appends one Word.
Push1(r) ==
    /\ Room
    /\ IF r.exc # "none"
       THEN /\ s' = s
            /\ Raise(r.exc)
       ELSE /\ s' = Append(s, r.val)
            /\ Goto(pc + 1)
    /\ UNCHANGED <<m, i>>
    /\ Frame

\* An operand used as a count is explored while it is small.
SmallCount(w) == Len(unsigned(w)) <= MaxOffsetBytes

\* A variant of the handler below that passes over STOP as over a JUMPDEST.
stop_skip ==
    /\ Fetch(STOP)
    /\ Goto(pc + 1)
    /\ UNCHANGED <<m, i, s>>
    /\ Frame

stop ==
    /\ Fetch(STOP)
    /\ Raise("HaltExecution")
    /\ UNCHANGED <<m, i, s>>
    /\ Frame

add == Fetch(ADD) /\ Binary(Int256_add)

mul == Fetch(MUL) /\ Binary(Int256_mul)

div == Fetch(DIV) /\ Binary(Int256_div)

sdiv == Fetch(SDIV) /\ Binary(Int256_sdiv)

mod == Fetch(MOD) /\ Binary(Int256_mod)

smod == Fetch(SMOD) /\ Binary(Int256_smod)

addmod == Fetch(ADDMOD) /\ Ternary(Int256_addmod)

mulmod == Fetch(MULMOD) /\ Ternary(Int256_mulmod)

\* a.exp(b); the power is computed in full before it is reduced, so the
\* exponent of a base above 1 is explored while it is small.
exp ==
    /\ Fetch(EXP)
    /\ Len(s) >= 2 =>
          \/ Len(unsigned(Peek(s, 1))) = 0
          \/ unsigned(Peek(s, 1)) = <<1>>
          \/ SmallCount(Peek(s, 2))
    /\ Binary(Int256_exp)

\* size is popped first, target second: target.signextend(size).
signextend_pop(size, target) == Int256_signextend(target, size)

signextend == Fetch(SIGNEXTEND) /\ Binary(signextend_pop)

lt == Fetch(LT) /\ Binary(Int256_lt)

gt == Fetch(GT) /\ Binary(Int256_gt)

slt == Fetch(SLT) /\ Binary(Int256_slt)

sgt == Fetch(SGT) /\ Binary(Int256_sgt)

eq == Fetch(EQ) /\ Binary(Int256_eq)

iszero == Fetch(ISZERO) /\ Unary(Int256_iszero)

and_ == Fetch(AND) /\ Binary(Int256_and_)

or_ == Fetch(OR) /\ Binary(Int256_or_)

xor == Fetch(XOR) /\ Binary(Int256_xor)

not_ == Fetch(NOT) /\ Unary(Int256_not_)

\* index = pop().unsigned, value = pop(): value.byte(index).
byte_pop(index, value) == Int256_byte(value, unsigned(index))

byte == Fetch(BYTE) /\ Binary(byte_pop)

\* shift is popped first, value second: value.shl(shift).
shl_pop(shift, value) == Int256_shl(value, shift)

\* The handler registered for SHL; a nonzero value is shifted in full before
\* it is reduced, so its shift is explored while it is small.
shl ==
    /\ Fetch(SHL)
    /\ Len(s) >= 2 =>
          \/ Len(unsigned(Peek(s, 2))) = 0
          \/ SmallCount(Peek(s, 1))
    /\ Binary(shl_pop)

shr_pop(shift, value) == Int256_shr(value, shift)

\* The handler registered for SHR (the source names it shl again).
shr == Fetch(SHR) /\ Binary(shr_pop)

sar_pop(shift, value) == Int256_sar(value, shift)

\* The handler registered for SAR (the source names it shl again).
sar == Fetch(SAR) /\ Binary(sar_pop)

pop ==
    /\ Fetch(POP)
    /\ IF Len(s) < 1
       THEN /\ s' = s
            /\ Raise("IndexError")
       ELSE /\ s' = PopN(s, 1)
            /\ Goto(pc + 1)
    /\ UNCHANGED <<m, i>>
    /\ Frame

\* offset = s[-1].unsigned; s[-1] = read_mem_256(offset); i = max(...).
mload ==
    /\ Fetch(MLOAD)
    /\ IF Len(s) < 1
       THEN /\ Raise("IndexError")
            /\ UNCHANGED <<m, i, s>>
       ELSE /\ SmallCount(Peek(s, 1))
            /\ LET offset == IntOfNat(unsigned(Peek(s, 1)))
               IN  /\ s' = Append(PopN(s, 1), read_mem_256(m, offset).val)
                   /\ m' = read_mem_256_dict(m, offset)
                   /\ i' = active_words_256(i, offset)
            /\ Goto(pc + 1)
    /\ Frame

\* offset = pop().unsigned; value = pop(); write_mem_256; i = max(...).
mstore ==
    /\ Fetch(MSTORE)
    /\ IF Len(s) < 2
       THEN /\ s' = PopN(s, 2)
            /\ Raise("IndexError")
            /\ UNCHANGED <<m, i>>
       ELSE /\ SmallCount(Peek(s, 1))
            /\ LET offset == IntOfNat(unsigned(Peek(s, 1)))
               IN  /\ m' = write_mem_256(m, offset, Peek(s, 2))
                   /\ i' = active_words_256(i, offset)
            /\ s' = PopN(s, 2)
            /\ Goto(pc + 1)
    /\ Frame

\* offset = pop().unsigned; value = pop(); write_mem_8; i = max(...).
mstore8 ==
    /\ Fetch(MSTORE8)
    /\ IF Len(s) < 2
       THEN /\ s' = PopN(s, 2)
            /\ Raise("IndexError")
            /\ UNCHANGED <<m, i>>
       ELSE /\ SmallCount(Peek(s, 1))
            /\ LET offset == IntOfNat(unsigned(Peek(s, 1)))
               IN  /\ m' = write_mem_8(m, offset, Peek(s, 2))
                   /\ i' = active_words_8(i, offset)
            /\ s' = PopN(s, 2)
            /\ Goto(pc + 1)
    /\ Frame

\* state.code[dest] can be read: dest is an index into the program.
InCode(dest, program) == Len(dest) <= 3 /\ IntOfNat(dest) < Len(program)

\* A variant of the test below that looks for the JUMP opcode where the source
\* looks for JUMPDEST; the jump properties are checked against it as well.
NotJump(dest, program) == CodeAt(program, IntOfNat(dest)) # JUMP

\* state.code[dest] != Mnemonic.JUMPDEST, for dest inside the program.
NotJumpdest(dest, program) == CodeAt(program, IntOfNat(dest)) # JUMPDEST

\* dest = pop().unsigned; the test of code[dest]; pc = dest.
jump ==
    /\ Fetch(JUMP)
    /\ IF Len(s) < 1
       THEN /\ s' = s
            /\ Raise("IndexError")
       ELSE LET dest == unsigned(Peek(s, 1))
            IN  /\ s' = PopN(s, 1)
                /\ IF ~InCode(dest, code) THEN Raise("IndexError")
                   ELSE IF NotJumpdest(dest, code)
                        THEN Raise("InvalidJumpDestination")
                        ELSE Goto(IntOfNat(dest))
    /\ UNCHANGED <<m, i>>
    /\ Frame

\* A variant of the test below with the branch inverted: true of the Word 0
\* only.
cond_eq_0(cond) == cond = Zeros(32)

\* cond != 0 in jumpi.  Int256 defines neither __eq__ nor __ne__, so the
\* comparison of an Int256 with the int 0 falls back to identity: the two
\* are never the same object, whatever bytes cond holds.
cond_ne_0(cond) == TRUE

\* dest = pop().unsigned; the test of code[dest]; cond = pop(); the branch.
jumpi ==
    /\ Fetch(JUMPI)
    /\ IF Len(s) < 1
       THEN /\ s' = s
            /\ Raise("IndexError")
       ELSE LET dest == unsigned(Peek(s, 1))
            IN  IF ~InCode(dest, code)
                THEN /\ s' = PopN(s, 1)
                     /\ Raise("IndexError")
                ELSE IF NotJumpdest(dest, code)
                THEN /\ s' = PopN(s, 1)
                     /\ Raise("InvalidJumpDestination")
                ELSE IF Len(s) < 2
                THEN /\ s' = PopN(s, 1)
                     /\ Raise("IndexError")
                ELSE /\ s' = PopN(s, 2)
                     /\ IF cond_ne_0(Peek(s, 2))
                        THEN Goto(IntOfNat(dest))
                        ELSE Goto(pc + 1)
    /\ UNCHANGED <<m, i>>
    /\ Frame

\* The handler registered for PC.
pc_ == Fetch(PC) /\ Push1(from_int(PyNat(NatOfInt(pc))))

msize == Fetch(MSIZE) /\ Push1(from_int(PyNat(NatOfInt(i * 32))))

\* The handler registered for GAS (the source names it msize again).
gas_ == Fetch(GAS) /\ Push1(from_int(PyNat(NatOfInt(gas))))

\* A variant of the handler below that leaves pc where it is.
jumpdest_stay ==
    /\ Fetch(JUMPDEST)
    /\ Goto(pc)
    /\ UNCHANGED <<m, i, s>>
    /\ Frame

\* jumpdest: state.pc += 1.
jumpdest ==
    /\ Fetch(JUMPDEST)
    /\ Goto(pc + 1)
    /\ UNCHANGED <<m, i, s>>
    /\ Frame

\* A variant of the slice below that starts on the opcode, one byte early.
ImmediateFromOpcode(program, counter, n) ==
    SubSeq(program, counter + 1, Min(counter + n, Len(program)))

\* state.code[state.pc + 1 : state.pc + 1 + n]: a slice stops at the end of
\* the program.
Immediate(program, counter, n) ==
    SubSeq(program, counter + 2, Min(counter + 1 + n, Len(program)))

\* push_n(n): data = (32 - n) zero bytes + the immediate; Int256(data).
push_n(n) ==
    /\ Fetch(PUSH1 + n - 1)
    /\ Room
    /\ LET r == Int256(Zeros(32 - n) \o Immediate(code, pc, n))
       IN  IF r.exc # "none"
           THEN /\ s' = s
                /\ Raise(r.exc)
           ELSE /\ s' = Append(s, r.val)
                /\ Goto(pc + 1 + n)
    /\ UNCHANGED <<m, i>>
    /\ Frame

push == \E n \in 1..32 : push_n(n)

\* dup_n(n): s.append(s[-n]).
dup_n(n) ==
    /\ Fetch(DUP1 + n - 1)
    /\ Room
    /\ IF Len(s) < n
       THEN /\ s' = s
            /\ Raise("IndexError")
       ELSE /\ s' = Append(s, Peek(s, n))
            /\ Goto(pc + 1)
    /\ UNCHANGED <<m, i>>
    /\ Frame

dup == \E n \in 1..16 : dup_n(n)

\* A variant of the handler below that exchanges the top with s[-n].
swap_n_shallow(n) ==
    /\ Fetch(SWAP1 + n - 1)
    /\ IF Len(s) < n + 1
       THEN /\ s' = s
            /\ Raise("IndexError")
       ELSE /\ s' = [s EXCEPT ![Len(s)] = Peek(s, n),
                              ![Len(s) + 1 - n] = Peek(s, 1)]
            /\ Goto(pc + 1)
    /\ UNCHANGED <<m, i>>
    /\ Frame

\* swap_n(n): x = s[-1]; s[-1] = s[-(n+1)]; s[-(n+1)] = x.
swap_n(n) ==
    /\ Fetch(SWAP1 + n - 1)
    /\ IF Len(s) < n + 1
       THEN /\ s' = s
            /\ Raise("IndexError")
       ELSE /\ s' = [s EXCEPT ![Len(s)] = Peek(s, n + 1),
                              ![Len(s) - n] = Peek(s, 1)]
            /\ Goto(pc + 1)
    /\ UNCHANGED <<m, i>>
    /\ Frame

swap == \E n \in 1..16 : swap_n(n)

\* A variant of the step below that passes over a byte without entry
\* instead of raising.
execute_skip ==
    /\ status = "running"
    /\ CodeAt(code, pc) \notin Registered
    /\ Goto(pc + 1)
    /\ UNCHANGED <<m, i, s>>
    /\ Frame

\* execute: _INSTRUCTION_MAP[m] raises KeyError for a byte without entry.
execute_KeyError ==
    /\ status = "running"
    /\ CodeAt(code, pc) \notin Registered
    /\ Raise("KeyError")
    /\ UNCHANGED <<m, i, s>>
    /\ Frame

\* One turn of main's loop: fetch, execute, and the loop test.
execute ==
    /\ \/ stop \/ add \/ mul \/ div \/ sdiv \/ mod \/ smod \/ addmod \/ mulmod
       \/ exp \/ signextend \/ lt \/ gt \/ slt \/ sgt \/ eq \/ iszero
       \/ and_ \/ or_ \/ xor \/ not_ \/ byte \/ shl \/ shr \/ sar
       \/ pop \/ mload \/ mstore \/ mstore8 \/ jump \/ jumpi
       \/ pc_ \/ msize \/ gas_ \/ jumpdest \/ push \/ dup \/ swap
       \/ execute_KeyError
    /\ turns' = Min(turns + 1, MaxTurns)

-----------------------------------------------------------------------------
(* Construction of a MachineState, and the programs it is given.           *)

\* All sequences over S of length at most n.
SeqsUpTo(S, n) == UNION {[1..k -> S] : k \in 0..n}

RECURSIVE Flatten(_)
\* The concatenation of a sequence of byte sequences.
Flatten(parts) == IF parts = << >> THEN << >> ELSE Head(parts) \o Flatten(Tail(parts))

\* Every program over a small alphabet of opcodes and data bytes.
RawBytes == {STOP, SUB, JUMP, JUMPI, JUMPDEST, PUSH1, MSIZE}
RawPrograms == SeqsUpTo(RawBytes, MaxRawLen)

\* PUSH1 d, JUMP, and what follows.
TailBytes == {STOP, PUSH1, JUMPDEST}
Tails == SeqsUpTo(TailBytes, MaxTailLen)
JumpPrograms ==
    {<<PUSH1, d, JUMP>> \o t : d \in 0..MaxDest, t \in Tails}

\* PUSH1 c, PUSH1 d, JUMPI, and what follows.
JumpiPrograms ==
    {<<PUSH1, c, PUSH1, d, JUMPI>> \o t : c \in {0, 1}, d \in 0..MaxDest, t \in Tails}

\* One or two memory instructions with their operands pushed before them.
MemOffsets == {0, 1, 31, 32, 33}
MemInstrs ==
    {<<PUSH1, v, PUSH1, o, op>> : v \in {1, 255}, o \in MemOffsets,
                                  op \in {MSTORE, MSTORE8}}
    \cup {<<PUSH1, o, MLOAD>> : o \in MemOffsets}
    \cup {<<MSIZE>>}
MemPrograms == {Flatten(q) : q \in SeqsUpTo(MemInstrs, 2)}

\* Every byte value as an opcode, after zero or one operand; the opcodes
\* below PUSH1 after two operands as well, and after three operands those
\* that take three.
OperandCode == {<<PUSH1, 0>>, <<PUSH1, 1>>, <<PUSH1, 32>>, <<PUSH1, 255>>,
                <<PUSH1, 0, NOT>>}
OpcodePrograms ==
    {Flatten(q) \o <<b>> : q \in SeqsUpTo(OperandCode, 1), b \in 0..255}
    \cup {Flatten(q) \o <<b>> : q \in [1..2 -> OperandCode],
                                b \in Registered \cap (0..(PUSH1 - 1))}
    \cup {Flatten(q) \o <<b>> : q \in [1..3 -> OperandCode \ {<<PUSH1, 32>>}],
                                b \in {ADDMOD, MULMOD}}

\* PUSHn followed by fewer, exactly, or more than n bytes.
PushPrograms ==
    {<<PUSH1 + n - 1>> \o [k \in 1..len |-> k] :
        n \in 1..32, len \in {0, 1, 31, 32, 33}}

\* DUPn and SWAPn on stacks of every depth up to MaxDepth.
DepthPrograms ==
    {Flatten([j \in 1..d |-> <<PUSH1, j>>]) \o <<op>> :
        d \in 0..MaxDepth, op \in DUP1..SWAP16}

\* A shift by exactly 256 and by 257 of a zero, a positive and a negative
\* value: PUSH1 v (or PUSH1 0, NOT), PUSH2 0x0100 or 0x0101, and the shift.
ShiftPrograms ==
    {v \o <<PUSH1 + 1, 1, c, op>> :
        v \in {<<PUSH1, 0>>, <<PUSH1, 1>>, <<PUSH1, 0, NOT>>},
        c \in {0, 1}, op \in {SHL, SHR, SAR}}

\* SDIV of a dividend beyond 2^53 in magnitude: 2^53 + 1, -(2^53 + 1), the
\* least and the greatest signed Word, by 0, 1, 3 and -1.  The divisor is
\* pushed first, the dividend last.
Dividends ==
    {<<PUSH1 + 6, 32, 0, 0, 0, 0, 0, 1>>,
     <<PUSH32>> \o [k \in 1..25 |-> 255] \o <<223, 255, 255, 255, 255, 255, 255>>,
     <<PUSH32, 128>> \o Zeros(31),
     <<PUSH32, 127>> \o [k \in 1..31 |-> 255]}
SdivPrograms ==
    {b \o a \o <<SDIV>> :
        a \in Dividends,
        b \in {<<PUSH1, 0>>, <<PUSH1, 1>>, <<PUSH1, 3>>, <<PUSH1, 0, NOT>>}}

\* The programs of main: the jump example and PUSH 0xff, PUSH 31, BYTE.
MainPrograms ==
    {<<PUSH1, 1, PUSH1, 7, JUMPI, PUSH1, 0, JUMPDEST>>,
     <<PUSH1, 255, PUSH1, 31, BYTE>>}

\* n + 1 pushes of different values, then SWAPn twice.
SwapTwicePrograms ==
    {Flatten([j \in 1..(n + 1) |-> <<PUSH1, j>>])
         \o <<SWAP1 + n - 1, SWAP1 + n - 1>> : n \in 1..16}

Programs ==
    RawPrograms \cup JumpPrograms \cup JumpiPrograms \cup MemPrograms
    \cup OpcodePrograms \cup PushPrograms \cup DepthPrograms \cup MainPrograms
    \cup ShiftPrograms \cup SdivPrograms \cup SwapTwicePrograms

\* The programs a later MachineState is given, besides the same one again.
SecondPrograms == {<<MSIZE>>, <<PUSH1, 0, MLOAD>>}

NoOutcome ==
    [code |-> << >>, s |-> << >>, m |-> << >>, pc |-> 0, i |-> 0,
     status |-> "none"]

\* state = MachineState(); state.code = program.  The instance has no
\* attribute of its own yet: pc, i and gas read the class's 0, m and s the
\* class's dict and list.
Init ==
    /\ code \in Programs
    /\ gas = 0
    /\ pc = 0
    /\ m = << >>
    /\ i = 0
    /\ s = << >>
    /\ status = LoopTest(0, code)
    /\ run = 1
    /\ prev = NoOutcome
    /\ turns = 0
    /\ item = << >>
    /\ encoded = << >>
    /\ decoded = << >>
    /\ codec = "idle"

\* Another MachineState() once the loop of the one before has ended: pc, i
\* and gas are the class's 0 again, m and s are the class's objects as the
\* instance before left them.
NewMachineState ==
    /\ status # "running"
    /\ run < MaxRuns
    /\ code' \in {code} \cup SecondPrograms
    /\ gas' = 0
    /\ pc' = 0
    /\ i' = 0
    /\ UNCHANGED <<m, s>>
    /\ status' = LoopTest(0, code')
    /\ run' = run + 1
    /\ prev' = [code |-> code, s |-> s, m |-> m, pc |-> pc, i |-> i,
                status |-> status]
    /\ turns' = 0
    /\ UNCHANGED rlp

Next == execute \/ NewMachineState

Spec == Init /\ [][Next]_vars

-----------------------------------------------------------------------------
(* Properties of the jumps.  The faults are the exceptions that leave       *)
(* main's loop: list.pop() and an index outside bytes raise IndexError, a   *)
(* byte without handler raises KeyError, STOP raises HaltExecution.         *)

\* main is about to dispatch op.
AtOp(op) == status = "running" /\ CodeAt(code, pc) = op

\* main is about to dispatch a jump that has a destination to pop.
AtJump ==
    /\ status = "running"
    /\ CodeAt(code, pc) \in {JUMP, JUMPI}
    /\ Len(s) >= 1

\* The destination on top of the stack, as a number.
TopDest == unsigned(Peek(s, 1))

\* The destination on top of the stack is an offset of the program.
DestInBounds == Len(TopDest) <= 3 /\ IntOfNat(TopDest) < Len(code)

\* The byte of the program at the destination on top of the stack.
DestByte == code[IntOfNat(TopDest) + 1]

\* C1: a JUMP or a JUMPI whose destination d is an offset of the program with
\* code[d] different from JUMPDEST raises InvalidJumpDestination, and pc is
\* not moved to d: it stays where it was.
C1_JumpToNonJumpdestFaults ==
    [][(AtJump /\ DestInBounds /\ DestByte # JUMPDEST)
          => (status' = "InvalidJumpDestination" /\ pc' = pc)]_vars

\* A JUMPI has raised InvalidJumpDestination with its condition still on the
\* stack.
C1_Witness ==
    /\ status = "InvalidJumpDestination"
    /\ CodeAt(code, pc) = JUMPI
    /\ Len(s) >= 1

\* C2: a JUMP or a JUMPI whose destination lies outside the program raises
\* InvalidJumpDestination, as it does for a destination inside the program
\* that is no JUMPDEST, and no other exception.
C2_OutOfBoundsJumpFaultsInvalidJumpDestination ==
    [][(AtJump /\ ~DestInBounds) => status' = "InvalidJumpDestination"]_vars

RECURSIVE ImmediatesFrom(_, _)
\* The offsets that decoding program instruction by instruction from offset k
\* finds to be bytes of a PUSHn immediate.
ImmediatesFrom(program, k) ==
    IF k >= Len(program) THEN {}
    ELSE LET op == CodeAt(program, k)
             n  == IF op \in PUSH1..PUSH32 THEN op - PUSH1 + 1 ELSE 0
         IN  ((k + 1)..Min(k + n, Len(program) - 1))
                 \cup ImmediatesFrom(program, k + 1 + n)

\* C3: the byte main fetches and dispatches is never a byte of the immediate
\* of a PUSHn found by decoding the program from offset 0, also after a jump
\* to a byte of value 0x5b.
C3_ImmediateNeverDispatched ==
    status = "running" => pc \notin ImmediatesFrom(code, 0)

\* main is about to dispatch a JUMPI that has both operands and a JUMPDEST
\* inside the program as destination.
AtValidJumpi ==
    /\ AtOp(JUMPI)
    /\ Len(s) >= 2
    /\ DestInBounds
    /\ DestByte = JUMPDEST

\* C4: a JUMPI whose destination is a JUMPDEST of the program and whose
\* condition is the Word 0 pops both operands and leaves pc at pc + 1.
C4_JumpiZeroConditionFallsThrough ==
    [][(AtValidJumpi /\ Peek(s, 2) = Zeros(32))
          => (s' = PopN(s, 2) /\ pc' = pc + 1)]_vars

\* The program of main: PUSH1 1, PUSH1 7, JUMPI, PUSH1 0, JUMPDEST.
JumpExample == <<PUSH1, 1, PUSH1, 7, JUMPI, PUSH1, 0, JUMPDEST>>

\* A step of the first MachineState given JumpExample: the two pushes, the
\* jump from offset 4 to offset 7 with nothing left on the stack, and the
\* JUMPDEST after which the loop ends with the stack still empty.
JumpExampleStep ==
    (run = 1 /\ code = JumpExample /\ status = "running") =>
        /\ pc \in {0, 2, 4, 7}
        /\ pc = 0 => (pc' = 2 /\ Len(s') = 1 /\ status' = "running")
        /\ pc = 2 => (pc' = 4 /\ Len(s') = 2 /\ status' = "running")
        /\ pc = 4 => (pc' = 7 /\ s' = << >> /\ status' = "running")
        /\ pc = 7 => (pc' = 8 /\ s' = << >> /\ status' = "exited")

\* C5: a JUMPI whose destination d is a JUMPDEST of the program and whose
\* condition is not the Word 0 pops exactly its two operands and sets pc to
\* d; the program 60 01 60 07 57 60 00 5b started on an empty stack goes
\* from offset 4 to offset 7 without executing the PUSH1 between them, and
\* then leaves the loop at the end of the code with an empty stack.
C5_JumpiNonzeroConditionJumps ==
    [][/\ (AtValidJumpi /\ Peek(s, 2) # Zeros(32))
             => /\ s' = PopN(s, 2)
                /\ pc' = IntOfNat(TopDest)
                /\ status' = "running"
       /\ JumpExampleStep]_vars

\* The first MachineState has run JumpExample to the end of the code.
C5_Witness ==
    /\ run = 1
    /\ code = JumpExample
    /\ pc = 8
    /\ status = "exited"
    /\ s = << >>

\* The number of Words the handler of op takes from the stack.
Operands(op) ==
    CASE op \in {ISZERO, NOT, POP, MLOAD, JUMP} -> 1
      [] op \in {ADD, MUL, DIV, SDIV, MOD, SMOD, EXP, SIGNEXTEND, LT, GT, SLT,
                 SGT, EQ, AND, OR, XOR, BYTE, SHL, SHR, SAR, MSTORE, MSTORE8,
                 JUMPI} -> 2
      [] op \in {ADDMOD, MULMOD} -> 3
      [] op \in DUP1..DUP16 -> op - DUP1 + 1
      [] op \in SWAP1..SWAP16 -> op - SWAP1 + 2
      [] OTHER -> 0

\* C6: an opcode that takes k Words, dispatched on a stack of fewer than k
\* Words, raises the exception of a pop from an empty stack (IndexError) and
\* nothing else.
C6_UnderflowFaultsStackUnderflow ==
    [][(status = "running" /\ Len(s) < Operands(CodeAt(code, pc)))
          => status' = "IndexError"]_vars

\* The byte values without a handler: SUB, 0x0c..0x0f, 0x1e..0x4f, 0x54,
\* 0x55, 0x5c..0x5f and 0xa0..0xff.
Unbound ==
    {SUB} \cup (12..15) \cup (30..79) \cup {84, 85} \cup (92..95) \cup (160..255)

\* C7: dispatching a byte without handler, SUB among them, raises KeyError:
\* pc stays on the byte, and stack, memory, i and gas are unchanged.
C7_UnboundByteFaultsInvalidOpcode ==
    [][(status = "running" /\ CodeAt(code, pc) \in Unbound)
          => /\ status' = "KeyError"
             /\ pc' = pc
             /\ UNCHANGED <<s, m, i, gas>>]_vars

\* SUB has raised KeyError with two Words on the stack.
C7_Witness ==
    /\ status = "KeyError"
    /\ CodeAt(code, pc) = SUB
    /\ Len(s) >= 2

-----------------------------------------------------------------------------
(* Properties of the MachineState and of its memory.                       *)

\* Two dicts hold the same memory: every offset reads the same byte, a
\* missing key reading 0.
SameMemory(m1, m2) ==
    \A k \in DOMAIN m1 \cup DOMAIN m2 : MemGet(m1, k) = MemGet(m2, k)

\* The loop of a later MachineState, given the program of the one before it,
\* has ended.
RerunEnded == run > 1 /\ status # "running" /\ code = prev.code

\* C8: a newly constructed MachineState has an empty stack and a memory that
\* reads 0 everywhere, and the same program run again on it ends with the
\* stack, memory, pc, i and exception of the run before.
C8_MachineStatesShareNothing ==
    [][/\ run' # run => (s' = << >> /\ SameMemory(m', << >>))
       /\ RerunEnded' => /\ s' = prev'.s
                         /\ SameMemory(m', prev'.m)
                         /\ pc' = prev'.pc
                         /\ i' = prev'.i
                         /\ status' = prev'.status]_vars

\* C9: while the first MachineState runs, i * 32, the size MSIZE pushes, is
\* greater than every byte offset an MLOAD, MSTORE or MSTORE8 has touched;
\* these are the keys of the dict, which gets a key for every byte written
\* or read.
C9_ActiveSizeAboveTouchedOffsets ==
    run = 1 => \A k \in DOMAIN m : i * 32 > k

\* C10: no step of a MachineState makes i smaller, and a step of an opcode
\* other than MLOAD, MSTORE and MSTORE8 leaves i as it is.
C10_ActiveWordsMonotone ==
    [][status = "running"
          => /\ i' >= i
             /\ CodeAt(code, pc) \notin {MLOAD, MSTORE, MSTORE8} => i' = i]_vars

\* An MSTORE at offset 32 has made i 2 and a later MSTORE at offset 0 has
\* left it there.
C10_Witness ==
    /\ run = 1
    /\ code = <<PUSH1, 1, PUSH1, 32, MSTORE, PUSH1, 1, PUSH1, 0, MSTORE>>
    /\ status = "exited"
    /\ i = 2

-----------------------------------------------------------------------------
(* Properties of the handlers.                                             *)

\* main is about to dispatch a PUSHn, and the stack has room for the Word.
AtPush ==
    /\ status = "running"
    /\ CodeAt(code, pc) \in PUSH1..PUSH32
    /\ Room

\* The n of the PUSHn at pc.
PushWidth == CodeAt(code, pc) - PUSH1 + 1

\* The bytes code[pc+1 .. pc+n] of the PUSHn at pc, all inside the program.
PushBytes == [k \in 1..PushWidth |-> code[pc + 1 + k]]

\* C11: a PUSHn whose n immediate bytes all lie inside the program
\* (pc + n < len(code)) appends exactly one Word, the unsigned value of which
\* is the big-endian integer of those n bytes, sets pc to pc + 1 + n and
\* leaves the Words below, memory, i and gas unchanged.
C11_PushPushesImmediate ==
    [][(AtPush /\ pc + PushWidth < Len(code))
          => /\ Len(s') = Len(s) + 1
             /\ SubSeq(s', 1, Len(s)) = s
             /\ unsigned(Peek(s', 1)) = Norm(Reverse(PushBytes))
             /\ pc' = pc + 1 + PushWidth
             /\ status' = LoopTest(pc + 1 + PushWidth, code)
             /\ UNCHANGED <<m, i, gas>>]_vars

\* A PUSH32 followed by exactly 32 bytes has pushed its Word and the loop
\* has ended.
C11_Witness ==
    /\ run = 1
    /\ Len(code) = 33
    /\ code[1] = PUSH32
    /\ pc = 33
    /\ Len(s) = 1
    /\ status = "exited"

\* The byte at big-endian position index of value as a Word, and the Word 0
\* for a position of 32 or more.
ByteWord(index, value) ==
    IF Len(unsigned(index)) <= 1 /\ IntOfNat(unsigned(index)) < 32
    THEN Zeros(31) \o <<value[IntOfNat(unsigned(index)) + 1]>>
    ELSE Zeros(32)

\* C12: BYTE pops the index, then the value, and appends one Word without
\* raising: the byte at big-endian position index of the value when
\* index < 32 (0xff for the program 60 ff 60 1f 1a), and 0 when index >= 32.
C12_ByteSelectsOrZero ==
    [][(AtOp(BYTE) /\ Len(s) >= 2)
          => /\ s' = Append(PopN(s, 2), ByteWord(Peek(s, 1), Peek(s, 2)))
             /\ pc' = pc + 1
             /\ status' = LoopTest(pc + 1, code)]_vars

\* main is about to dispatch SHL, SHR or SAR with a shift count of 256 or
\* more on top of the stack and a value below it.
AtLongShift ==
    /\ status = "running"
    /\ CodeAt(code, pc) \in {SHL, SHR, SAR}
    /\ Len(s) >= 2
    /\ ~NLt(unsigned(Peek(s, 1)), <<0, 1>>)

\* What a shift by 256 or more leaves of value: the Word 0, or the Word of
\* all ones for SAR of a value with the top bit set.
LongShiftWord(op, value) ==
    IF op = SAR /\ value[1] >= 128 THEN [k \in 1..32 |-> 255] ELSE Zeros(32)

\* C13: SHL, SHR and SAR with a shift count of 256 or more (shift popped
\* first, value second) raise nothing, move pc to pc + 1 and append the Word
\* 0, or for SAR of a negative value the Word of all ones.
C13_LongShiftsSaturate ==
    [][AtLongShift
          => /\ s' = Append(PopN(s, 2), LongShiftWord(CodeAt(code, pc), Peek(s, 2)))
             /\ pc' = pc + 1
             /\ status' = LoopTest(pc + 1, code)]_vars

\* The complement of all 256 bits of v: the Word of unsigned value
\* 2^256 - 1 - v.
Complement(v) == [k \in 1..32 |-> 255 - v[k]]

\* C14: NOT on a non-empty stack raises nothing, whatever the top bit of the
\* Word v it pops, and appends the complement of v, so that a second NOT
\* gives v back.
C14_NotComplementsEveryWord ==
    [][(AtOp(NOT) /\ Len(s) >= 1)
          => /\ s' = Append(PopN(s, 1), Complement(Peek(s, 1)))
             /\ Complement(Peek(s', 1)) = Peek(s, 1)
             /\ pc' = pc + 1
             /\ status' = LoopTest(pc + 1, code)]_vars

\* The quotient of the signed values of a and b truncated toward zero, as a
\* Word: 0 for b = 0, and the least signed Word for that Word divided by -1.
SdivWord(a, b) ==
    LET x == signed(a)
        y == signed(b)
        q == IF y.mag = << >> THEN << >> ELSE NDiv(x.mag, y.mag)
    IN  IF x = PyNeg(Two255) /\ y = PyNeg(<<1>>) THEN a
        ELSE from_signed_int(IF x.neg # y.neg THEN PyNeg(q) ELSE PyNat(q)).val

\* C15: SDIV raises nothing and appends the exact quotient of the signed
\* values of its operands truncated toward zero, over the whole signed range:
\* 0 for a zero divisor, the least signed Word for that Word divided by -1.
C15_SdivIsExact ==
    [][(AtOp(SDIV) /\ Len(s) >= 2)
          => /\ s' = Append(PopN(s, 2), SdivWord(Peek(s, 1), Peek(s, 2)))
             /\ pc' = pc + 1
             /\ status' = LoopTest(pc + 1, code)]_vars

-----------------------------------------------------------------------------
(* Properties of main's loop.  Halted is the loop left at the end of the    *)
(* code ("exited") or by STOP's HaltExecution; a fault is any other         *)
(* exception.                                                               *)

\* C16: the loop runs only while pc < len(code) and nothing was raised; STOP
\* ends it with HaltExecution, a step that brings pc to len(code) or beyond
\* ends it, and once it has ended, normally or by an exception, no opcode is
\* dispatched on this MachineState: the only step left constructs another
\* MachineState, and changes neither the stack nor the memory.
C16_LoopEndsAndStaysEnded ==
    [][/\ status' = "running" => pc' < Len(code')
       /\ AtOp(STOP) => (status' = "HaltExecution" /\ UNCHANGED <<pc, s, m, i>>)
       /\ (status = "running" /\ pc' >= Len(code)) => status' = "exited"
       /\ status # "running" => (run' = run + 1 /\ UNCHANGED <<s, m>>)]_vars

\* STOP has ended the loop of the first MachineState before the end of the
\* code, with a Word on the stack.
C16_Witness ==
    /\ run = 1
    /\ status = "HaltExecution"
    /\ CodeAt(code, pc) = STOP
    /\ pc + 1 < Len(code)
    /\ Len(s) >= 1

-----------------------------------------------------------------------------
(* The length-prefixed codec (src/rlp.py).  An Item is bytes or a list of  *)
(* Items; b"" and [] are different Items, so an Item carries its kind,     *)
(* its bytes if it is bytes and its items if it is a list.                  *)

Bytes(b) == [kind |-> "bytes", bytes |-> b, items |-> << >>]
List(l) == [kind |-> "list", bytes |-> << >>, items |-> l]

\* q[lo:hi] of Python for 0 <= lo: both ends are cut at len(q).
Slice(q, lo, hi) ==
    IF lo >= Min(hi, Len(q)) THEN << >> ELSE SubSeq(q, lo + 1, Min(hi, Len(q)))

\* struct.pack(">Q", value).lstrip(b"\x00"): the big-endian digits of value.
encode_int64(value) == Reverse(NatOfInt(value))

\* struct.unpack(">Q", (8 - len(data)) * b"\x00" + data)[0], a Python
\* integer; _decode_item hands it at most eight bytes.
decode_int64(data) == Norm(Reverse(data))

\* A Python integer n used as the length of a slice of q: a slice is cut at
\* len(q), so every length from len(q) on selects the same bytes.
SliceLength(n, q) == IF Len(n) > 3 THEN Len(q) ELSE Min(IntOfNat(n), Len(q))

RECURSIVE encode(_)
encode(value) ==
    IF value.kind = "bytes"
    THEN IF Len(value.bytes) = 1 /\ value.bytes[1] < 128
         THEN value.bytes
         ELSE IF Len(value.bytes) <= 55
         THEN <<128 + Len(value.bytes)>> \o value.bytes
         ELSE LET len_enc == encode_int64(Len(value.bytes))
              IN  <<183 + Len(len_enc)>> \o len_enc \o value.bytes
    ELSE LET encoded_list ==
                 Flatten([k \in 1..Len(value.items) |->
                              encode(value.items[k])])
         IN  IF Len(encoded_list) <= 55
             THEN <<192 + Len(encoded_list)>> \o encoded_list
             ELSE LET len_enc == encode_int64(Len(encoded_list))
                  IN  <<247 + Len(len_enc)>> \o len_enc \o encoded_list

RECURSIVE decode_item(_)
RECURSIVE decode_list_loop(_, _)

\* The while loop of _decode_list: one Item is taken off remainder per turn.
decode_list_loop(result, remainder) ==
    IF remainder = << >> THEN result
    ELSE LET next == decode_item(remainder)
         IN  decode_list_loop(Append(result, next.item), next.remainder)

decode_list(data) == List(decode_list_loop(<< >>, data))

\* The pair (item, remainder) of _decode_item, for data that is not empty.
decode_item(data) ==
    IF data[1] < 192
    THEN IF data[1] < 128
         THEN [item |-> Bytes(Slice(data, 0, 1)),
               remainder |-> Slice(data, 1, Len(data))]
         ELSE IF data[1] < 183
         THEN LET length == data[1] - 128
              IN  [item |-> Bytes(Slice(data, 1, length + 1)),
                   remainder |-> Slice(data, length + 1, Len(data))]
         ELSE LET enc_length == data[1] - 183
                  length == SliceLength(
                                decode_int64(Slice(data, 1, enc_length + 1)),
                                data)
              IN  [item |-> Bytes(Slice(data, enc_length + 1,
                                        enc_length + length + 1)),
                   remainder |-> Slice(data, enc_length + length + 1,
                                       Len(data))]
    ELSE IF data[1] < 247
         THEN LET length == data[1] - 192
              IN  [item |-> decode_list(Slice(data, 1, length + 1)),
                   remainder |-> Slice(data, length + 1, Len(data))]
         ELSE LET enc_length == data[1] - 247
                  length == SliceLength(
                                decode_int64(Slice(data, 1, enc_length + 1)),
                                data)
              IN  [item |-> decode_list(Slice(data, enc_length + 1,
                                              enc_length + length + 1)),
                   remainder |-> Slice(data, enc_length + length + 1,
                                       Len(data))]

\* decode(data): data[0] of empty bytes raises IndexError.
decode(data) ==
    IF data = << >> THEN [kind |-> "IndexError", bytes |-> << >>, items |-> << >>]
    ELSE decode_item(data).item

\* Longest byte string given to encode: one above the last short length.
MaxStrLen == 56

\* One byte below 0x80, the first byte of the short form, and the largest.
FillBytes == {0, 97, 128, 255}

Strings == {[k \in 1..n |-> b] : n \in 0..MaxStrLen, b \in FillBytes}

\* The Items of rlp_test.py.
Dog == Bytes(<<100, 111, 103>>)
Cat == Bytes(<<99, 97, 116>>)
SetTheory ==
    List(<<List(<< >>), List(<<List(<< >>)>>),
           List(<<List(<< >>), List(<<List(<< >>)>>)>>)>>)
\* b"Lorem ipsum dolor sit amet, consectetur adipisicing elit", 56 bytes.
Lorem ==
    Bytes(<<76, 111, 114, 101, 109, 32, 105, 112, 115, 117, 109, 32, 100,
            111, 108, 111, 114, 32, 115, 105, 116, 32, 97, 109, 101, 116,
            44, 32, 99, 111, 110, 115, 101, 99, 116, 101, 116, 117, 114,
            32, 97, 100, 105, 112, 105, 115, 105, 99, 105, 110, 103, 32,
            101, 108, 105, 116>>)
TestItems ==
    {Dog, List(<<Cat, Dog>>), Bytes(<< >>), List(<< >>), Bytes(<<0>>),
     Bytes(<<4, 0>>), SetTheory, Lorem}

\* Byte strings of every length up to MaxStrLen, the lists of one such
\* string (payloads of every length up to MaxStrLen + 2) and the test Items.
Items ==
    {Bytes(b) : b \in Strings} \cup {List(<<Bytes(b)>>) : b \in Strings}
    \cup TestItems

\* No MachineState is made while the codec is exercised.
InitRlp ==
    /\ code = << >>
    /\ gas = 0
    /\ pc = 0
    /\ m = << >>
    /\ i = 0
    /\ s = << >>
    /\ status = "exited"
    /\ run = 0
    /\ prev = NoOutcome
    /\ turns = 0
    /\ item \in Items
    /\ encoded = << >>
    /\ decoded = << >>
    /\ codec = "item"

\* encoded = rlp.encode(item)
CallEncode ==
    /\ codec = "item"
    /\ encoded' = encode(item)
    /\ codec' = "encoded"
    /\ UNCHANGED <<item, decoded>>
    /\ UNCHANGED machine

\* decoded = rlp.decode(encoded)
CallDecode ==
    /\ codec = "encoded"
    /\ decoded' = decode(encoded)
    /\ codec' = "decoded"
    /\ UNCHANGED <<item, encoded>>
    /\ UNCHANGED machine

NextRlp == CallEncode \/ CallDecode

SpecRlp == InitRlp /\ [][NextRlp]_vars

\* C17: decode is the inverse of encode: once an Item has been encoded and
\* the bytes decoded, the Item decode returned is the Item encode was given,
\* for byte strings and list payloads of every length, 55 and 56 included.
C17_DecodeInvertsEncode == codec = "decoded" => decoded = item

-----------------------------------------------------------------------------
(* Properties of the memory.                                                *)

\* main is about to dispatch op with the entries it pops on the stack.
AtMemOp(op, n) == AtOp(op) /\ Len(s) >= n

\* The offset on top of the stack.
TopOffset == IntOfNat(unsigned(Peek(s, 1)))

\* The addresses of either memory.
Addresses(m1, m2) == DOMAIN m1 \cup DOMAIN m2

\* C18: memory reads return the last value written.  Memory starts with no
\* byte written; MSTORE at offset o makes the 32 bytes from o the big-endian
\* bytes of the value, MSTORE8 makes the byte at o the low-order byte of the
\* value, and neither changes another address; MLOAD at o replaces the top of
\* the stack by the Word whose byte k is the byte at o + k, 0 where nothing
\* was written, and keeps the height; MLOAD and every other step leave the
\* value of every byte as it is.
C18_LoadReturnsLastStore ==
    /\ m = << >>
    /\ [][/\ AtMemOp(MSTORE, 2)
             => \A a \in Addresses(m, m') \cup (TopOffset..(TopOffset + 31)) :
                    MemGet(m', a) =
                        IF a \in TopOffset..(TopOffset + 31)
                        THEN Peek(s, 2)[a - TopOffset + 1]
                        ELSE MemGet(m, a)
          /\ AtMemOp(MSTORE8, 2)
             => \A a \in Addresses(m, m') \cup {TopOffset} :
                    MemGet(m', a) =
                        IF a = TopOffset THEN Peek(s, 2)[32] ELSE MemGet(m, a)
          /\ AtMemOp(MLOAD, 1)
             => /\ Len(s') = Len(s)
                /\ SubSeq(s', 1, Len(s) - 1) = SubSeq(s, 1, Len(s) - 1)
                /\ Peek(s', 1) = [k \in 1..32 |-> MemGet(m, TopOffset + k - 1)]
                /\ status' # "IndexError"
          /\ ~(AtMemOp(MSTORE, 2) \/ AtMemOp(MSTORE8, 2))
             => SameMemory(m', m)]_vars

\* An MSTORE8 of 255 at offset 1 and an MLOAD at offset 0 have left the Word
\* whose second byte is 255 on the stack.
C18_Witness ==
    /\ run = 1
    /\ code = <<PUSH1, 255, PUSH1, 1, MSTORE8, PUSH1, 0, MLOAD>>
    /\ status = "exited"
    /\ s = <<[k \in 1..32 |-> IF k = 2 THEN 255 ELSE 0]>>

\* The bytes the program holds after the PUSHn at pc, fewer than n, with the
\* missing trailing bytes as zeros.
PaddedPushBytes ==
    [k \in 1..PushWidth |-> IF pc + k < Len(code) THEN code[pc + 1 + k] ELSE 0]

\* C19: a PUSHn with fewer than n bytes after the opcode does not fault: it
\* pushes one Word, the bytes present followed by zeros for the missing ones,
\* pc advances by 1 + n and the loop ends by end of code.
C19_TruncatedPushPadsWithZeros ==
    [][(AtPush /\ pc + PushWidth >= Len(code))
          => /\ Len(s') = Len(s) + 1
             /\ SubSeq(s', 1, Len(s)) = s
             /\ unsigned(Peek(s', 1)) = Norm(Reverse(PaddedPushBytes))
             /\ pc' = pc + 1 + PushWidth
             /\ status' = "exited"]_vars

-----------------------------------------------------------------------------
(* Properties of DUPn and SWAPn.                                            *)

\* The n of the DUPn or SWAPn at pc.
DupWidth == CodeAt(code, pc) - DUP1 + 1
SwapWidth == CodeAt(code, pc) - SWAP1 + 1

\* main is about to dispatch a DUPn with at least n entries on the stack.
AtDup ==
    /\ status = "running"
    /\ CodeAt(code, pc) \in DUP1..DUP16
    /\ Len(s) >= DupWidth
    /\ Room

\* main is about to dispatch a SWAPn with at least n + 1 entries on the
\* stack.
AtSwap ==
    /\ status = "running"
    /\ CodeAt(code, pc) \in SWAP1..SWAP16
    /\ Len(s) >= SwapWidth + 1

\* The stack the pushes of a program of SwapTwicePrograms build.
PushedBySwapTwice ==
    [j \in 1..((Len(code) - 2) \div 2) |-> [k \in 1..32 |-> IF k = 32 THEN j ELSE 0]]

\* C20: DUPn appends a copy of the entry n - 1 below the top and leaves the
\* entries below as they are; SWAPn exchanges the top with the entry n below
\* it and leaves the height and every other entry as they are; both advance
\* pc by 1 and leave memory, i and gas as they are; and SWAPn dispatched
\* twice in a row leaves the stack it found.
C20_DupCopiesSwapExchanges ==
    /\ [][/\ AtDup
             => /\ s' = Append(s, s[Len(s) - (DupWidth - 1)])
                /\ pc' = pc + 1
                /\ UNCHANGED <<m, i, gas>>
          /\ AtSwap
             => /\ Len(s') = Len(s)
                /\ s'[Len(s)] = s[Len(s) - SwapWidth]
                /\ s'[Len(s) - SwapWidth] = s[Len(s)]
                /\ \A k \in 1..Len(s) :
                       k \notin {Len(s), Len(s) - SwapWidth} => s'[k] = s[k]
                /\ pc' = pc + 1
                /\ UNCHANGED <<m, i, gas>>]_vars
    /\ [](code \in SwapTwicePrograms /\ run = 1 /\ status = "exited"
             => s = PushedBySwapTwice)

\* SWAP16 has been dispatched twice on a stack of the 17 Words 1..17 and the
\* loop has ended.
C20_Witness ==
    /\ run = 1
    /\ code \in SwapTwicePrograms
    /\ code[Len(code)] = SWAP16
    /\ status = "exited"
    /\ Len(s) = 17
    /\ Peek(s, 1)[32] = 17

-----------------------------------------------------------------------------
(* Progress of pc and the length of an execution.                           *)

\* The positions of program that hold an opcode when it is read from 0 on.
OpcodePositions(program) ==
    (0..(Len(program) - 1)) \ ImmediatesFrom(program, 0)

\* No opcode of program is JUMP or JUMPI.
JumpFree(program) ==
    \A k \in OpcodePositions(program) : CodeAt(program, k) \notin {JUMP, JUMPI}

\* C21: a turn of main's loop that neither halts nor faults and dispatches
\* neither JUMP nor JUMPI makes pc larger, by 1 + n for PUSHn and by 1
\* otherwise; so while the loop runs a program without JUMP and JUMPI the turns
\* taken are at most pc, which is below len(code), and the loop has ended
\* after at most len(code) turns.
C21_PcAdvancesAndLoopEnds ==
    /\ [][(/\ status = "running"
           /\ status' \in {"running", "exited"}
           /\ CodeAt(code, pc) \notin {JUMP, JUMPI})
             => pc' = pc + 1 + (IF CodeAt(code, pc) \in PUSH1..PUSH32
                                THEN PushWidth ELSE 0)]_vars
    /\ [](JumpFree(code)
             => /\ turns <= Len(code)
                /\ status = "running" => (turns <= pc /\ pc < Len(code)))

\* The 19 turns of a program without jumps, 17 pushes and SWAP16 twice, have
\* been taken and the loop has ended at the end of its 36 bytes.
C21_Witness ==
    /\ run = 1
    /\ code \in SwapTwicePrograms
    /\ code[Len(code)] = SWAP16
    /\ JumpFree(code)
    /\ status = "exited"
    /\ pc = Len(code)
    /\ turns = 19

=============================================================================
